---- MODULE Spec2Model ----
(***************************************************************************)
(* A model of chain.RPCClient (fnowallet), the persistent notification     *)
(* client: Start / Stop, the notification callbacks, and the two dispatch  *)
(* loops handler (General queue) and handlerVoting (Voting queue).         *)
(*                                                                         *)
(* Granularity.  A step of the model is one blocking point or one shared   *)
(* access of the Go code: a channel operation, a mutex acquisition, an RPC *)
(* call of the transport.  Code that touches only goroutine-local state    *)
(* is folded into the step that precedes it.                               *)
(*                                                                         *)
(* Channels.  All four notification channels are unbuffered, so a send and *)
(* its receive are one joint step of the two goroutines.  quit is only     *)
(* ever closed.  Closing a closed channel panics, which ends the process.  *)
(***************************************************************************)
EXTENDS Integers, Sequences, FiniteSets, TLC

\* ------------------------------------------------------------------ bounds
MaxEvents   == 2   \* invocations of the callbacks altogether
MaxStoppers == 2   \* external goroutines that call Stop
MaxProbes   == 1   \* liveness probes the General loop starts

\* ------------------------------------------------------- program constants
RequiredMajor == 5
RequiredMinor == 0
RequiredPatch == 0
requiredChainServerAPI ==
    [major |-> RequiredMajor, minor |-> RequiredMinor, patch |-> RequiredPatch]

\* ------------------------------------------------------------- the inputs
Nets     == {"mainnet", "testnet"}
ChainNet == "mainnet"                      \* c.chainParams.Net
ZeroAPI  == [major |-> 0, minor |-> 0, patch |-> 0]   \* var serverAPI semver
ServerAPIs ==
    { [major |-> 4, minor |-> 9, patch |-> 0],
      [major |-> 5, minor |-> 0, patch |-> 0],
      [major |-> 5, minor |-> 2, patch |-> 3],
      [major |-> 6, minor |-> 0, patch |-> 0] }

Queues  == {"general", "voting"}
Tickets == {"T1", "T2"}
\* the mappings ticket -> spent that onSpentAndMissedTickets is called with
TicketMaps ==
    { [t \in Tickets |-> TRUE],
      [t \in Tickets |-> t # "T1"],
      [t \in Tickets |-> FALSE] }
NoEvent == [kind |-> "nil", id |-> 0, tickets |-> {}]

\* goroutines that may call Stop: the General loop, the external callers, and
\* the goroutine of each liveness probe that waits for the probe's result
HandlerId  == 0
Externals  == 1 .. MaxStoppers
Probes     == 1 .. MaxProbes
ProbeId(j) == MaxStoppers + j
ProbeIds   == {ProbeId(j) : j \in Probes}
ProbeOf(p) == p - MaxStoppers
Stoppers   == {HandlerId} \cup Externals \cup ProbeIds
NoOwner    == -1

VARIABLES
    conn,          \* the transport: "new", "connected", "disconnected", "shutdown"
    startPc,       \* Start: "idle", "net", "version", "mark", "launch", "ret"
    startErr,      \* what the last Start returned: "none", "ok", "io", "rpc", "net", "version"
    seenNet,       \* the network GetCurrentNet reported to the current Start
    seenAPI,       \* serverAPI of Start; a failed Start returns it in its error
    started,       \* c.started
    quitMtx,       \* owner of c.quitMtx, or NoOwner
    quit,          \* c.quit is closed
    quitCloses,    \* executions of close(c.quit)
    shutdowns,     \* calls of c.Client.Shutdown
    stopPc,        \* per caller of Stop: "idle", "teardown" (holds the mutex), "ret"
    wg,            \* c.wg
    hpc,           \* per loop: "none", "select", "stop", "close", "wgdone", "done"
    notifications, \* per loop: the local slice notifications
    dequeue,       \* per loop: the local dequeue is c.dequeue...Notification (TRUE) or nil
    next,          \* per loop: the local next
    pingChan,      \* handler's pingChan will deliver a tick not yet received
    probes,        \* liveness probes started so far
    session,       \* per probe, the goroutine calling c.Session(): "none", "calling",
                   \*   then sessionResponse holds "ok" or "err", or was "taken"
    ppc,           \* per probe, the goroutine waiting for it: "none", "select",
                   \*   "stop" (c.Stop() after an error), "stopT" (c.Stop() after
                   \*   the timeout), "reset" (sending on pingChanReset), "done"
    closes,        \* per output channel: executions of close on it
    closedByStop,  \* Stop took the !c.started branch
    panicked,      \* the process died of a runtime panic
    pending,       \* callbacks blocked in their select: [ev, q]
    nextId,        \* number of the next callback invocation, the event's identity
    accepted,      \* per queue: the events its intake handed to the loop
    delivered,     \* per queue: the events the consumer received
    waitPc,        \* the caller of WaitForShutdown: "idle", "wg" (in c.wg.Wait()), "ret"
    waitAfterStart \* c.Client.WaitForShutdown() returned after Start had returned nil

vars == << conn, startPc, startErr, seenNet, seenAPI, started, quitMtx,
           quit, quitCloses, shutdowns, stopPc, wg, hpc, notifications, dequeue,
           next, pingChan, probes, session, ppc, closes, closedByStop, panicked,
           pending, nextId, accepted, delivered, waitPc, waitAfterStart >>

startVars == << startPc, startErr, seenNet, seenAPI >>
stopVars  == << quitMtx, quit, quitCloses, shutdowns, stopPc, closedByStop >>
loopVars  == << notifications, dequeue, next >>
pingVars  == << pingChan, probes, session, ppc >>
histVars  == << accepted, delivered >>
cbVars    == << pending, nextId >>
waitVars  == << waitPc, waitAfterStart >>

\* NewRPCClientConfig: channels made, nothing connected, nothing started
Init ==
    /\ conn = "new"
    /\ startPc = "idle" /\ startErr = "none"
    /\ seenNet = "none" /\ seenAPI = ZeroAPI
    /\ started = FALSE
    /\ quitMtx = NoOwner
    /\ quit = FALSE /\ quitCloses = 0 /\ shutdowns = 0
    /\ stopPc = [p \in Stoppers |-> "idle"]
    /\ wg = 0
    /\ hpc = [q \in Queues |-> "none"]
    /\ notifications = [q \in Queues |-> << >>]
    /\ dequeue = [q \in Queues |-> FALSE]
    /\ next = [q \in Queues |-> NoEvent]
    /\ pingChan = FALSE /\ probes = 0
    /\ session = [j \in Probes |-> "none"]
    /\ ppc = [j \in Probes |-> "none"]
    /\ closes = [q \in Queues |-> 0]
    /\ closedByStop = FALSE
    /\ panicked = FALSE
    /\ pending = {}
    /\ nextId = 1
    /\ accepted = [q \in Queues |-> << >>]
    /\ delivered = [q \in Queues |-> << >>]
    /\ waitPc = "idle" /\ waitAfterStart = FALSE

\* ------------------------------------------------------------ the transport
\* c.Disconnect(): a client that was shut down stays shut down
Disconnect(c) == IF c = "shutdown" THEN "shutdown" ELSE "disconnected"

\* semverCompatible(required, actual): same major version, and actual is not
\* below required in (minor, patch) order
semverCompatible(required, actual) ==
    /\ required.major = actual.major
    /\ ~ (required.minor > actual.minor)
    /\ ~ (required.minor = actual.minor /\ required.patch > actual.patch)

\* --------------------------------------------------------------------- Start
\* c.Client.Connect(ctx, retry): on failure Start returns before the defer
\* is registered, so nothing is disconnected.
StartConnect ==
    /\ ~panicked
    /\ startPc = "idle"
    /\ \/ /\ conn # "shutdown"
          /\ conn' = "connected"
          /\ startPc' = "net" /\ startErr' = "none"
       \/ /\ startPc' = "ret" /\ startErr' = "io"
          /\ conn' = conn
    /\ UNCHANGED << waitVars, seenNet, seenAPI, started, stopVars, wg, hpc, loopVars,
                    pingVars, closes, panicked, cbVars, histVars >>

\* mutant: the network is not compared
NetMismatchNever(net) == FALSE

\* if net != c.chainParams.Net
NetMismatch(net) == net # ChainNet

\* mutant: Start returns the error without disconnecting
DeferredNothing(c) == c

\* mutant: a failing Start shuts the transport down for good
DeferredShutdown(c) == "shutdown"

\* the transport once Start returns an error after Connect: the deferred
\* c.Disconnect()
DeferredDisconnect(c) == Disconnect(c)

\* net, err := c.Client.GetCurrentNet(), and the comparison with the
\* configured network
StartGetCurrentNet ==
    /\ ~panicked
    /\ startPc = "net"
    /\ \/ /\ startPc' = "ret" /\ startErr' = "rpc"        \* err != nil
          /\ conn' = DeferredDisconnect(conn)
          /\ seenNet' = seenNet
       \/ /\ conn = "connected"
          /\ \E net \in Nets :
               /\ seenNet' = net
               /\ IF NetMismatch(net)
                    THEN /\ startPc' = "ret" /\ startErr' = "net"
                         /\ conn' = DeferredDisconnect(conn)
                    ELSE /\ startPc' = "version" /\ startErr' = startErr
                         /\ conn' = conn
    /\ UNCHANGED << waitVars, seenAPI, started, stopVars, wg, hpc, loopVars, pingVars,
                    closes, panicked, cbVars, histVars >>

\* mutant: any server at or above the required major version passes
VersionCheckedMajorAtLeast(serverAPI) ==
    serverAPI.major >= requiredChainServerAPI.major

\* mutant: the check is skipped when the version query failed
VersionCheckedUnlessUnknown(serverAPI) ==
    \/ serverAPI = ZeroAPI
    \/ semverCompatible(requiredChainServerAPI, serverAPI)

\* if !semverCompatible(requiredChainServerAPI, serverAPI)
VersionChecked(serverAPI) == semverCompatible(requiredChainServerAPI, serverAPI)

\* versions, err := c.Client.Version(); serverAPI stays the zero value when
\* the call fails; then the compatibility check.
StartVersion ==
    /\ ~panicked
    /\ startPc = "version"
    /\ \E ok \in BOOLEAN, api \in ServerAPIs :
         /\ ok => conn = "connected"
         /\ LET serverAPI == IF ok THEN api ELSE ZeroAPI
            IN  /\ seenAPI' = serverAPI
                /\ IF VersionChecked(serverAPI)
                     THEN /\ startPc' = "mark" /\ startErr' = startErr
                          /\ conn' = conn
                     ELSE /\ startPc' = "ret" /\ startErr' = "version"
                          /\ conn' = DeferredDisconnect(conn)
    /\ UNCHANGED << waitVars, seenNet, started, stopVars, wg, hpc, loopVars, pingVars,
                    closes, panicked, cbVars, histVars >>

\* mutant: the mutex excludes nobody
MutexAlwaysFree(p) == TRUE

\* mutant: Start sets c.started without taking the mutex
MutexFreeForStart(p) == p = NoOwner \/ quitMtx = NoOwner

\* c.quitMtx.Lock() can be passed
MutexFree(p) == quitMtx = NoOwner

\* c.quitMtx.Lock(); c.started = true; c.quitMtx.Unlock()
StartMarkStarted ==
    /\ ~panicked
    /\ startPc = "mark"
    /\ MutexFree(NoOwner)
    /\ started' = TRUE
    /\ startPc' = "launch"
    /\ UNCHANGED << waitVars, conn, startErr, seenNet, seenAPI, stopVars, wg, hpc,
                    loopVars, pingVars, closes, panicked, cbVars, histVars >>

\* c.wg.Add(2); go c.handler(); go c.handlerVoting(); return nil.  handler
\* begins with pingChan := time.After(time.Minute).
StartLaunch ==
    /\ ~panicked
    /\ startPc = "launch"
    /\ wg' = wg + 2
    /\ hpc' = [q \in Queues |-> "select"]
    /\ pingChan' = TRUE
    /\ startPc' = "ret" /\ startErr' = "ok"
    /\ seenAPI' = ZeroAPI
    /\ UNCHANGED << waitVars, conn, seenNet, started, stopVars, loopVars, probes, session,
                    ppc, closes, panicked, cbVars, histVars >>

\* ---------------------------------------------------------------------- Stop
\* mutant: Stop always leaves the output channels to the loops
StopClosesOutputNever(q) == FALSE

\* if !c.started: Stop closes the two output channels itself
StopClosesOutput(q) == ~started

\* close(ch) of an output channel
CloseOutput(cl, q) == [cl EXCEPT ![q] = @ + 1]

\* mutant: a probe's goroutine only logs the error or the timeout and never
\* calls c.Stop()
AtStopCallersOnly(p) ==
    /\ stopPc[p] = "idle"
    /\ p = HandlerId => hpc["general"] = "stop"
    /\ p \in Externals /\ p > 1 => stopPc[p - 1] # "idle"
    /\ p \notin ProbeIds

\* the goroutine p is at a call of c.Stop(): an external caller that has not
\* called it yet, handler after its loop, or a probe's goroutine after an
\* error or a timeout.  The external callers are interchangeable, so they
\* are taken to call in the order of their numbers.
AtStop(p) ==
    /\ stopPc[p] = "idle"
    /\ p = HandlerId => hpc["general"] = "stop"
    /\ p \in Externals /\ p > 1 => stopPc[p - 1] # "idle"
    /\ p \in ProbeIds => ppc[ProbeOf(p)] \in {"stop", "stopT"}

\* where Stop returns to: handler goes on to close its output; a probe's
\* goroutine goes on to send the timer reset after an error, and ends after
\* a timeout
ReturnedHpc(p) ==
    IF p = HandlerId THEN [hpc EXCEPT !["general"] = "close"] ELSE hpc
ReturnedPpc(p) ==
    IF p \in ProbeIds
      THEN [ppc EXCEPT ![ProbeOf(p)] = IF @ = "stop" THEN "reset" ELSE "done"]
      ELSE ppc

\* c.quitMtx.Lock(); select { case <-c.quit: default: ... }; on the first
\* branch Stop unlocks and returns
StopSelect(p) ==
    /\ ~panicked
    /\ AtStop(p)
    /\ MutexFree(p)
    /\ IF quit
         THEN /\ stopPc' = [stopPc EXCEPT ![p] = "ret"]
              /\ quitMtx' = NoOwner
              /\ hpc' = ReturnedHpc(p)
              /\ ppc' = ReturnedPpc(p)
         ELSE /\ stopPc' = [stopPc EXCEPT ![p] = "teardown"]
              /\ quitMtx' = p
              /\ UNCHANGED << hpc, ppc >>
    /\ UNCHANGED << waitVars, conn, startVars, started, quit, quitCloses, shutdowns,
                    closedByStop, wg, loopVars, pingChan, probes, session,
                    closes, panicked, cbVars, histVars >>

\* close(c.quit); c.Client.Shutdown(); if !c.started { close both outputs };
\* c.quitMtx.Unlock().  Closing a closed channel panics.
StopTeardown(p) ==
    /\ ~panicked
    /\ stopPc[p] = "teardown"
    /\ quitCloses' = quitCloses + 1
    /\ IF quit
         THEN /\ panicked' = TRUE
              /\ UNCHANGED << conn, quit, shutdowns, closes, closedByStop,
                              stopPc, quitMtx, hpc, ppc >>
         ELSE /\ quit' = TRUE
              /\ shutdowns' = shutdowns + 1
              /\ conn' = "shutdown"
              /\ closes' = [q \in Queues |->
                              IF StopClosesOutput(q) THEN CloseOutput(closes, q)[q]
                                                     ELSE closes[q]]
              /\ closedByStop' = (\E q \in Queues : StopClosesOutput(q))
              /\ panicked' = (\E q \in Queues : closes'[q] > 1)
              /\ stopPc' = [stopPc EXCEPT ![p] = "ret"]
              /\ quitMtx' = NoOwner
              /\ hpc' = ReturnedHpc(p)
              /\ ppc' = ReturnedPpc(p)
    /\ UNCHANGED << waitVars, startVars, started, wg, loopVars, pingChan, probes, session,
                    cbVars, histVars >>

\* ----------------------------------------------------------------- callbacks
Event(k, n, t) == [kind |-> k, id |-> n, tickets |-> t]

\* select { case c.enqueue...Notification <- ev: case <-c.quit: }: the
\* callback's goroutine waits in the select
Offer(k, t, q) ==
    /\ ~panicked
    /\ conn \in {"connected", "shutdown"}
    /\ nextId <= MaxEvents
    /\ pending' = pending \cup {[ev |-> Event(k, nextId, t), q |-> q]}
    /\ nextId' = nextId + 1
    /\ UNCHANGED << waitVars, conn, startVars, started, stopVars, wg, hpc, loopVars,
                    pingVars, closes, panicked, histVars >>

\* mutant: the error of Deserialize is ignored and the event sent anyway
OfferUndecoded == Offer("relevantTxAccepted", {}, "general")

\* a callback that returns without offering anything
OfferNothing ==
    /\ ~panicked
    /\ conn \in {"connected", "shutdown"}
    /\ nextId <= MaxEvents
    /\ nextId' = nextId + 1
    /\ UNCHANGED << waitVars, conn, startVars, started, stopVars, wg, hpc, loopVars,
                    pingVars, closes, panicked, pending, histVars >>

\* mutant: onWinningTickets sends on the General intake
WinningQueueGeneral == "general"

\* mutant: onWinningTickets sends on the General intake (as above, for the
\* progress of the Voting queue)
WinningQueueShared == "general"

\* the intake each callback sends on
GeneralQueue == "general"
WinningQueue == "voting"

onBlockConnected    == Offer("blockConnected", {}, GeneralQueue)
onBlockDisconnected == Offer("blockDisconnected", {}, GeneralQueue)
onReorganization    == Offer("reorganization", {}, GeneralQueue)
onStakeDifficulty   == Offer("stakeDifficulty", {}, GeneralQueue)
onWinningTickets    == Offer("winningTickets", {}, WinningQueue)

\* onRelevantTxAccepted called with a transaction that deserializes (valid)
\* or not: when msgTx.Deserialize fails, logged, nothing offered
onRelevantTxAcceptedOf(valid) ==
    IF valid THEN Offer("relevantTxAccepted", {}, GeneralQueue)
             ELSE OfferNothing

onRelevantTxAccepted == \E valid \in BOOLEAN : onRelevantTxAcceptedOf(valid)

\* mutant: every ticket of the mapping is copied, spent or not
MissedAll(tickets) == DOMAIN tickets

\* the tickets of the mapping that are not spent
Missed(tickets) == {t \in DOMAIN tickets : ~tickets[t]}

\* onSpentAndMissedTickets called with the mapping tickets
onSpentAndMissedTicketsOf(tickets) ==
    IF Missed(tickets) = {}
      THEN OfferNothing
      ELSE Offer("missedTickets", Missed(tickets), GeneralQueue)

onSpentAndMissedTickets ==
    \E tickets \in TicketMaps : onSpentAndMissedTicketsOf(tickets)

\* mutant: the callback only sends on the intake, with no case for quit
CallbackSendsOnly(w) ==
    /\ w \in pending
    /\ FALSE
    /\ UNCHANGED vars

\* case <-c.quit: of a callback's select
CallbackQuit(w) ==
    /\ ~panicked
    /\ w \in pending
    /\ quit
    /\ pending' = pending \ {w}
    /\ UNCHANGED << waitVars, conn, startVars, started, stopVars, wg, hpc, loopVars,
                    pingVars, closes, panicked, nextId, histVars >>

\* ------------------------------------------------------- the dispatch loops
\* mutant: the new notification is put in front of the buffer
PrependNotification(buf, n) == << n >> \o buf

\* notifications = append(notifications, n)
AppendNotification(buf, n) == Append(buf, n)

\* mutant: handlerVoting re-arms the idle timer as handler does
RearmedByAnyQueue(q) == TRUE

\* pingChan = time.After(time.Minute), in handler only
Rearmed(q) == IF q = "general" THEN TRUE ELSE pingChan

\* case n, ok := <-enqueue: of the loop's select, jointly with the send of a
\* waiting callback.  The intake channels are never closed, so ok is true.
\* A closed quit is ready in both selects, so neither goroutine parks on the
\* intake any more and no handoff happens once quit is closed.
HandlerEnqueue(q, w) ==
    /\ ~panicked
    /\ hpc[q] = "select"
    /\ ~quit
    /\ w \in pending /\ w.q = q
    /\ pending' = pending \ {w}
    /\ IF Len(notifications[q]) = 0
         THEN /\ next' = [next EXCEPT ![q] = w.ev]
              /\ dequeue' = [dequeue EXCEPT ![q] = TRUE]
         ELSE UNCHANGED << next, dequeue >>
    /\ notifications' = [notifications EXCEPT ![q] = AppendNotification(@, w.ev)]
    /\ pingChan' = Rearmed(q)
    /\ accepted' = [accepted EXCEPT ![q] = Append(@, w.ev)]
    /\ UNCHANGED << waitVars, conn, startVars, started, stopVars, wg, hpc, probes,
                    session, ppc, closes, panicked, nextId, delivered >>

\* mutant: the delivered notification stays in the buffer
EvictNothing(buf) == buf

\* mutant: the buffer is cut at its end instead of its head
EvictLast(buf) == SubSeq(buf, 1, Len(buf) - 1)

\* notifications[0] = nil; notifications = notifications[1:]
Evict(buf) == Tail(buf)

\* case dequeue <- next: of the loop's select, jointly with the consumer's
\* receive.  enqueue is never nil, so the loop goes on.
HandlerDequeue(q) ==
    /\ ~panicked
    /\ hpc[q] = "select"
    /\ dequeue[q]
    /\ closes[q] = 0          \* the consumer receives a value from an open channel
    /\ delivered' = [delivered EXCEPT ![q] = Append(@, next[q])]
    /\ LET rest == Evict(notifications[q])
       IN  /\ notifications' = [notifications EXCEPT ![q] = rest]
           /\ IF Len(rest) # 0
                THEN /\ next' = [next EXCEPT ![q] = rest[1]]
                     /\ dequeue' = dequeue
                ELSE /\ next' = next
                     /\ dequeue' = [dequeue EXCEPT ![q] = FALSE]
    /\ UNCHANGED << waitVars, conn, startVars, started, stopVars, wg, hpc, pingVars,
                    closes, panicked, cbVars, accepted >>

\* what a loop does once it broke out of the select on quit: handler calls
\* c.Stop(), handlerVoting goes on to the close
AfterBreak(q) == IF q = "general" THEN "stop" ELSE "close"

\* mutant: the loop looks at quit only once its buffer is flushed
QuitReadyWhenFlushed(q) == quit /\ notifications[q] = << >>

\* mutant: the loop also breaks out when its intake is closed with nothing
\* buffered, and something closes the intakes
QuitReadyOrIntakeClosed(q) == quit \/ notifications[q] = << >>

\* case <-c.quit: of the loop's select can be taken
QuitReady(q) == quit

\* case <-c.quit: break out
HandlerQuit(q) ==
    /\ ~panicked
    /\ hpc[q] = "select"
    /\ QuitReady(q)
    /\ hpc' = [hpc EXCEPT ![q] = AfterBreak(q)]
    /\ UNCHANGED << waitVars, conn, startVars, started, stopVars, wg, loopVars, pingVars,
                    closes, panicked, cbVars, histVars >>

\* close(c.dequeueNotification) / close(c.dequeueVotingNotification).
\* Closing a closed channel panics.
HandlerClose(q) ==
    /\ ~panicked
    /\ hpc[q] = "close"
    /\ closes' = CloseOutput(closes, q)
    /\ IF closes[q] > 0
         THEN /\ panicked' = TRUE
              /\ hpc' = hpc
         ELSE /\ panicked' = FALSE
              /\ hpc' = [hpc EXCEPT ![q] = "wgdone"]
    /\ UNCHANGED << waitVars, conn, startVars, started, stopVars, wg, loopVars, pingVars,
                    cbVars, histVars >>

\* c.wg.Done()
HandlerDone(q) ==
    /\ ~panicked
    /\ hpc[q] = "wgdone"
    /\ wg' = wg - 1
    /\ hpc' = [hpc EXCEPT ![q] = "done"]
    /\ UNCHANGED << waitVars, conn, startVars, started, stopVars, loopVars, pingVars,
                    closes, panicked, cbVars, histVars >>

\* --------------------------------------------------------- the liveness probe
\* mutant: handler calls c.Session() itself and waits for the response
\* instead of starting goroutines
HandlerPingWaits ==
    /\ ~panicked
    /\ hpc["general"] = "select"
    /\ pingChan
    /\ probes < MaxProbes
    /\ pingChan' = FALSE
    /\ probes' = probes + 1
    /\ session' = [session EXCEPT ![probes + 1] = "calling"]
    /\ ppc' = [ppc EXCEPT ![probes + 1] = "select"]
    /\ hpc' = [hpc EXCEPT !["general"] = "session"]
    /\ UNCHANGED << waitVars, conn, startVars, started, stopVars, wg, loopVars,
                    closes, panicked, cbVars, histVars >>

\* case <-pingChan: the idle timer fired; handler makes sessionResponse and
\* starts the two goroutines of a probe
HandlerPing ==
    /\ ~panicked
    /\ hpc["general"] = "select"
    /\ pingChan
    /\ probes < MaxProbes
    /\ pingChan' = FALSE
    /\ probes' = probes + 1
    /\ session' = [session EXCEPT ![probes + 1] = "calling"]
    /\ ppc' = [ppc EXCEPT ![probes + 1] = "select"]
    /\ UNCHANGED << waitVars, conn, startVars, started, stopVars, wg, hpc, loopVars,
                    closes, panicked, cbVars, histVars >>

\* _, err := c.Session(); sessionResponse <- sessionResult{err}: the channel
\* has room for the one result, so the send never waits
SessionReturn(j) ==
    /\ ~panicked
    /\ session[j] = "calling"
    /\ \E r \in {"ok", "err"} :
         /\ r = "ok" => conn = "connected"
         /\ session' = [session EXCEPT ![j] = r]
    /\ UNCHANGED << waitVars, conn, startVars, started, stopVars, wg, hpc, loopVars,
                    pingChan, probes, ppc, closes, panicked, cbVars, histVars >>

\* case resp := <-sessionResponse: on an error c.Stop() first; then the send
\* of the new timer on pingChanReset
ProbeResponse(j) ==
    /\ ~panicked
    /\ ppc[j] = "select"
    /\ session[j] \in {"ok", "err"}
    /\ ppc' = [ppc EXCEPT ![j] = IF session[j] = "err" THEN "stop" ELSE "reset"]
    /\ session' = [session EXCEPT ![j] = "taken"]
    /\ UNCHANGED << waitVars, conn, startVars, started, stopVars, wg, hpc, loopVars,
                    pingChan, probes, closes, panicked, cbVars, histVars >>

\* case <-time.After(time.Minute): c.Stop()
ProbeTimeout(j) ==
    /\ ~panicked
    /\ ppc[j] = "select"
    /\ ppc' = [ppc EXCEPT ![j] = "stopT"]
    /\ UNCHANGED << waitVars, conn, startVars, started, stopVars, wg, hpc, loopVars,
                    pingChan, probes, session, closes, panicked, cbVars,
                    histVars >>

\* pingChanReset <- time.After(time.Minute) of the probe's goroutine, jointly
\* with case ch := <-pingChanReset: pingChan = ch of handler
HandlerPingReset(j) ==
    /\ ~panicked
    /\ hpc["general"] = "select"
    /\ ppc[j] = "reset"
    /\ pingChan' = TRUE
    /\ ppc' = [ppc EXCEPT ![j] = "done"]
    /\ UNCHANGED << waitVars, conn, startVars, started, stopVars, wg, hpc, loopVars,
                    probes, session, closes, panicked, cbVars, histVars >>

\* ----------------------------------------------------------- WaitForShutdown
\* c.Client.WaitForShutdown(): returns once the transport runs no goroutine
\* of its own, which is so before Connect and after Disconnect or Shutdown
WaitTransport ==
    /\ ~panicked
    /\ waitPc = "idle"
    /\ conn # "connected"
    /\ waitPc' = "wg"
    /\ waitAfterStart' = (startPc = "ret" /\ startErr = "ok")
    /\ UNCHANGED << conn, startVars, started, stopVars, wg, hpc, loopVars,
                    pingVars, closes, panicked, cbVars, histVars >>

\* mutant: WaitForShutdown waits for the transport only
WaitWgSkipped ==
    /\ ~panicked
    /\ waitPc = "wg"
    /\ waitPc' = "ret"
    /\ UNCHANGED << conn, startVars, started, stopVars, wg, hpc, loopVars,
                    pingVars, closes, panicked, cbVars, histVars, waitAfterStart >>

\* c.wg.Wait(): returns once the counter is zero
WaitWg ==
    /\ ~panicked
    /\ waitPc = "wg"
    /\ wg = 0
    /\ waitPc' = "ret"
    /\ UNCHANGED << conn, startVars, started, stopVars, wg, hpc, loopVars,
                    pingVars, closes, panicked, cbVars, histVars, waitAfterStart >>

\* ---------------------------------------------------------------------- Next
Start ==
    \/ StartConnect
    \/ StartGetCurrentNet
    \/ StartVersion
    \/ StartMarkStarted
    \/ StartLaunch

Stop(p) ==
    \/ StopSelect(p)
    \/ StopTeardown(p)

WaitForShutdown ==
    \/ WaitTransport
    \/ WaitWg

Callback ==
    \/ onBlockConnected
    \/ onBlockDisconnected
    \/ onRelevantTxAccepted
    \/ onReorganization
    \/ onWinningTickets
    \/ onSpentAndMissedTickets
    \/ onStakeDifficulty

\* the way out of a loop
loopExit(q) ==
    \/ HandlerQuit(q)
    \/ HandlerClose(q)
    \/ HandlerDone(q)

\* the loop of handler without its idle timer
handlerQueue ==
    \/ \E w \in pending : HandlerEnqueue("general", w)
    \/ HandlerDequeue("general")
    \/ loopExit("general")

Probe ==
    \/ HandlerPing
    \/ \E j \in Probes : SessionReturn(j)
    \/ \E j \in Probes : ProbeResponse(j)
    \/ \E j \in Probes : ProbeTimeout(j)
    \/ \E j \in Probes : HandlerPingReset(j)

handler == handlerQueue \/ Probe

handlerVoting ==
    \/ \E w \in pending : HandlerEnqueue("voting", w)
    \/ HandlerDequeue("voting")
    \/ loopExit("voting")

Next ==
    \/ Start
    \/ \E p \in Stoppers : Stop(p)
    \/ WaitForShutdown
    \/ Callback
    \/ \E w \in pending : CallbackQuit(w)
    \/ handler
    \/ handlerVoting

Spec == Init /\ [][Next]_vars

\* The behaviours in which no idle window of the General loop elapses: the
\* timer of handler never fires, so no liveness probe is started.  One
\* external goroutine calls Stop, besides handler.
FirstExternal  == CHOOSE p \in Externals : \A r \in Externals : p <= r
QuietStoppers  == {HandlerId, FirstExternal}
NextQuiet ==
    \/ Start
    \/ \E p \in QuietStoppers : Stop(p)
    \/ Callback
    \/ \E w \in pending : CallbackQuit(w)
    \/ handlerQueue
    \/ handlerVoting

SpecQuiet == Init /\ [][NextQuiet]_vars

\* The behaviours in which the server sends no notification: Start, every
\* caller of Stop (external, handler, the probes), a caller of
\* WaitForShutdown and the loops' way out.
NextIdle ==
    \/ Start
    \/ \E p \in Stoppers : Stop(p)
    \/ WaitForShutdown
    \/ \E q \in Queues : loopExit(q)
    \/ Probe

SpecIdle == Init /\ [][NextIdle]_vars

\* The behaviours of SpecQuiet with the server sending block and winning
\* ticket notifications only, under the scheduling Go guarantees: a goroutine
\* that can take a step eventually takes one.  Nothing obliges a caller to
\* call Start or Stop, the server to send, or the General consumer to read;
\* the Voting consumer keeps reading.
NextLive ==
    \/ Start
    \/ \E p \in Stoppers : Stop(p)
    \/ onBlockConnected
    \/ onWinningTickets
    \/ \E w \in pending : CallbackQuit(w)
    \/ handlerQueue
    \/ handlerVoting

Fairness ==
    /\ WF_vars(StartMarkStarted)
    /\ WF_vars(StartLaunch)
    /\ WF_vars(StopSelect(HandlerId))
    /\ \A p \in Stoppers : WF_vars(StopTeardown(p))
    /\ \A q \in Queues : WF_vars(loopExit(q))
    /\ WF_vars(\E w \in pending : HandlerEnqueue("voting", w))
    /\ WF_vars(HandlerDequeue("voting"))
    /\ WF_vars(\E w \in pending : CallbackQuit(w))

SpecLive == Init /\ [][NextLive]_vars /\ Fairness

\* The behaviours in which no caller acts after Start: nobody outside the
\* client calls Stop or WaitForShutdown, the server sends block notifications,
\* the idle timer of handler may fire and start liveness probes.  Scheduling
\* as Go guarantees it: a goroutine that can take a step eventually takes
\* one; a select with a timer among its cases does not wait forever; the
\* transport fails an outstanding call once it is shut down.  Nothing obliges
\* the server to send or to answer, the timer to fire, or the consumers to
\* read.
ProbeStoppers == {HandlerId} \cup ProbeIds
NextProbe ==
    \/ Start
    \/ \E p \in ProbeStoppers : Stop(p)
    \/ onBlockConnected
    \/ \E w \in pending : CallbackQuit(w)
    \/ handler
    \/ loopExit("voting")

ProbeFairness ==
    /\ WF_vars(StartMarkStarted)
    /\ WF_vars(StartLaunch)
    /\ \A p \in ProbeStoppers : WF_vars(Stop(p))
    /\ \A q \in Queues : WF_vars(loopExit(q))
    /\ \A j \in Probes : WF_vars(conn # "connected" /\ SessionReturn(j))
    /\ \A j \in Probes : WF_vars(ProbeResponse(j) \/ ProbeTimeout(j))
    /\ \A j \in Probes : WF_vars(HandlerPingReset(j))
    /\ WF_vars(\E w \in pending : CallbackQuit(w))

SpecProbe == Init /\ [][NextProbe]_vars /\ ProbeFairness

\* The behaviours of SpecProbe in which the server sends nothing, so that
\* nothing re-arms the idle timer of handler.
NextProbeIdle ==
    \/ Start
    \/ \E p \in ProbeStoppers : Stop(p)
    \/ \E q \in Queues : loopExit(q)
    \/ Probe

SpecProbeIdle == Init /\ [][NextProbeIdle]_vars /\ ProbeFairness

\* The behaviours with both queues at work and the idle timer of handler:
\* the server sends block and winning ticket notifications, the timer may
\* fire and start liveness probes, and Stop is called by handler and by the
\* probes' goroutines only.
NextTimer ==
    \/ Start
    \/ \E p \in ProbeStoppers : Stop(p)
    \/ onBlockConnected
    \/ onWinningTickets
    \/ \E w \in pending : CallbackQuit(w)
    \/ handler
    \/ handlerVoting

SpecTimer == Init /\ [][NextTimer]_vars

\* ==================================================================== claims
IsPrefix(s, t) == Len(s) <= Len(t) /\ \A i \in 1 .. Len(s) : s[i] = t[i]
Elems(s)       == {s[i] : i \in 1 .. Len(s)}
Exited(q)      == hpc[q] \in {"close", "wgdone", "done"}
Disconnected   == conn \in {"disconnected", "shutdown"}
StartFailed    == startPc = "ret" /\ startErr \in {"io", "rpc", "net", "version"}

\* C1: for each Delivery Queue, the events handed to the consumer are a prefix
\* of the events the queue's intake accepted: delivered in the order accepted,
\* none twice, none ahead of an earlier one.
C1_DeliveredIsPrefixOfAccepted ==
    \A q \in Queues : IsPrefix(delivered[q], accepted[q])

\* C1 witness: the General consumer has received two events, one queued
\* behind the other.
C1_Witness ==
    /\ Len(delivered["general"]) >= 2
    /\ delivered["general"] = accepted["general"]

C3_NoDoubleClose ==
    \A q \in Queues : closes[q] <= 1

\* C4: the terminal signal is closed exactly once and the transport's
\* Shutdown is invoked exactly once, however many Stop calls there are; a
\* Stop call that finds the terminal signal set changes nothing of the
\* Session; the terminal signal, once set, stays set.
C4_StopIdempotent ==
    /\ [](/\ quitCloses <= 1
          /\ shutdowns = quitCloses
          /\ quit <=> quitCloses = 1)
    /\ [][quit => /\ quit'
                  /\ quitCloses' = quitCloses /\ shutdowns' = shutdowns
                  /\ ((\E p \in Stoppers : stopPc'[p] # stopPc[p]) =>
                        /\ conn' = conn /\ started' = started
                        /\ closes' = closes /\ panicked' = panicked)]_vars

\* C4 witness: two external callers and a probe's goroutine have all
\* returned from Stop with the terminal signal closed once.
C4_Witness ==
    /\ \A p \in Externals : stopPc[p] = "ret"
    /\ \E p \in ProbeIds : stopPc[p] = "ret"
    /\ quit /\ quitCloses = 1 /\ shutdowns = 1

\* C5: once the terminal signal was set by a Stop on a started Session, both
\* output channels are eventually closed and both loops have exited, whether
\* or not the consumer reads.
C5_StopClosesBothStreams ==
    (quit /\ started /\ ~closedByStop)
        ~> (\A q \in Queues : closes[q] = 1 /\ hpc[q] = "done")

\* C5 witness: both loops are done and both outputs closed after a Stop on a
\* started Session, with an event left in a buffer that no consumer read.
C5_Witness ==
    /\ quit /\ started /\ ~closedByStop
    /\ \A q \in Queues : closes[q] = 1 /\ hpc[q] = "done"
    /\ \E q \in Queues : notifications[q] # << >> /\ delivered[q] = << >>

\* C6: a winningTickets event is offered to, accepted by and delivered on the
\* Voting queue only, and an event of any other kind on the General queue
\* only.
RoutedRight(ev, q) == (ev.kind = "winningTickets") <=> (q = "voting")
C6_RoutingIsStrict ==
    /\ \A w \in pending : RoutedRight(w.ev, w.q)
    /\ \A q \in Queues :
         \A ev \in Elems(accepted[q]) \cup Elems(delivered[q]) : RoutedRight(ev, q)

\* C6 witness: a winningTickets event was delivered on the Voting stream and
\* an event of another kind on the General stream.
C6_Witness ==
    /\ \E ev \in Elems(delivered["voting"]) : ev.kind = "winningTickets"
    /\ \E ev \in Elems(delivered["general"]) : ev.kind # "winningTickets"

\* C7: on a started Session, a winningTickets event that its callback offers
\* is delivered on the Voting stream (unless the Session becomes terminal),
\* whatever the General queue holds and whether or not its consumer reads.
C7_VotingProgress ==
    \A n \in 1 .. MaxEvents :
        (/\ \E w \in pending : w.ev.id = n /\ w.ev.kind = "winningTickets"
         /\ hpc["voting"] = "select"
         /\ ~quit)
        ~> (quit \/ \E ev \in Elems(delivered["voting"]) : ev.id = n)

\* C7 witness: a winningTickets event was delivered while the General queue
\* holds an earlier event that its consumer has not read.
C7_Witness ==
    /\ ~quit
    /\ \E ev \in Elems(delivered["voting"]) :
         /\ ev.kind = "winningTickets"
         /\ \E b \in Elems(notifications["general"]) : b.id < ev.id
    /\ delivered["general"] = << >>

\* C8: when the server reports another network than the configured one,
\* Start returns an error with the transport disconnected, the Session not
\* started and no loop launched.
C8_NetworkMismatchFailsStart ==
    (seenNet \in Nets /\ seenNet # ChainNet) =>
        /\ startPc = "ret" /\ startErr = "net"
        /\ Disconnected
        /\ ~started
        /\ \A q \in Queues : hpc[q] = "none"

\* C8 witness: Start has returned the mismatch error.
C8_Witness ==
    /\ seenNet = "testnet"
    /\ startPc = "ret" /\ startErr = "net"
    /\ conn = "disconnected"

\* C9: the version check passes exactly for a version with the major version
\* of the required 5.0.0 and not below it in (minor, patch): 4.9.0 and 6.0.0
\* make Start fail with the transport torn down, 5.2.3 lets it succeed.
AtLeastRequired(v) ==
    \/ v.minor > RequiredMinor
    \/ v.minor = RequiredMinor /\ v.patch >= RequiredPatch
Compatible(v) == v.major = RequiredMajor /\ AtLeastRequired(v)
API(ma, mi, pa) == [major |-> ma, minor |-> mi, patch |-> pa]
C9_VersionCheck ==
    /\ ~Compatible(API(4, 9, 0)) /\ ~Compatible(API(6, 0, 0)) /\ Compatible(API(5, 2, 3))
    /\ startPc \in {"mark", "launch"} => Compatible(seenAPI)
    /\ seenAPI \in ServerAPIs =>
         IF Compatible(seenAPI)
           THEN startPc \in {"mark", "launch"}
           ELSE startPc = "ret" /\ startErr = "version" /\ Disconnected /\ ~started
    /\ startPc = "launch" => started
    /\ startPc = "ret" /\ started => startErr = "ok"

\* C9 witness: Start passed the check with version 5.2.3 and is about to
\* launch the loops and return nil.
C9_Witness ==
    startPc = "launch" /\ seenAPI = API(5, 2, 3)

\* C10: the Session is marked started and the loops are launched only after
\* Connect succeeded and the network and version checks passed; a Start that
\* fails returns with started false, no loop running, the WaitGroup untouched.
C10_StartedOnlyAfterChecks ==
    /\ started => /\ startPc \in {"launch", "ret"}
                  /\ startPc = "ret" => startErr = "ok"
                  /\ startPc = "launch" => Compatible(seenAPI)
                  /\ seenNet = ChainNet
    /\ \A q \in Queues : hpc[q] # "none" => started /\ startErr = "ok"
    /\ wg # 0 => started /\ startErr = "ok"
    /\ StartFailed => /\ ~started
                      /\ \A q \in Queues : hpc[q] = "none"
                      /\ wg = 0

\* C10 witness: Start returned nil and both loops run.
C10_Witness ==
    /\ startPc = "ret" /\ startErr = "ok" /\ started
    /\ \A q \in Queues : hpc[q] = "select"
    /\ wg = 2

\* C11: on a started Session whose idle timer fired, when the liveness probe
\* returned an error or timed out, the probe's goroutine calls Stop with no
\* caller acting: the terminal signal is set and both output channels are
\* eventually closed by their loops.
C11_FailedProbeStops ==
    \A j \in Probes :
        (\/ ppc[j] = "select" /\ session[j] = "err"
         \/ ppc[j] \in {"stop", "stopT"})
        ~> (/\ stopPc[ProbeId(j)] = "ret"
            /\ quit
            /\ \A q \in Queues : closes[q] = 1 /\ hpc[q] = "done")

\* C11 witness: after a timeout the probe's goroutine has run the teardown
\* of Stop itself, and both loops have closed their outputs.
C11_Witness ==
    /\ \E j \in Probes : ppc[j] = "done" /\ stopPc[ProbeId(j)] = "ret"
                          /\ session[j] = "calling"
    /\ stopPc[HandlerId] = "ret"
    /\ quit /\ quitCloses = 1
    /\ \A q \in Queues : closes[q] = 1 /\ hpc[q] = "done"

\* every goroutine of the client has ended: no callback waits in its
\* select, no Stop is under way, the loops that were launched are done, and
\* the two goroutines of every probe that was started have ended
Terminated ==
    /\ pending = {}
    /\ \A p \in Stoppers : stopPc[p] # "teardown"
    /\ \A q \in Queues : hpc[q] \in {"none", "done"}
    /\ \A j \in Probes : session[j] # "calling" /\ ppc[j] \in {"none", "done"}

\* C12: once Stop has been invoked (the terminal signal is set), every
\* goroutine of the client eventually ends, the probe's goroutine that
\* sends the timer reset to handler included.
C12_AllTerminateAfterStop ==
    quit ~> Terminated

\* C13: once the terminal signal is set, every callback invocation waiting
\* in its select returns (or the process has ended), whether or not a loop
\* receives: also on a Session that never started and after the loops exited.
C13_CallbackReturnsAfterStop ==
    \A n \in 1 .. MaxEvents :
        (quit /\ \E w \in pending : w.ev.id = n)
        ~> (panicked \/ ~ \E w \in pending : w.ev.id = n)

\* C13 witness: Start failed, so no loop was ever launched; callbacks were
\* invoked while the transport was connected, Stop was called, and every
\* callback has returned without its event being accepted.
C13_Witness ==
    /\ StartFailed /\ \A q \in Queues : hpc[q] = "none"
    /\ quit /\ ~panicked
    /\ nextId > MaxEvents /\ pending = {}
    /\ \A q \in Queues : accepted[q] = << >>

\* C14: each loop closes its output channel before it decrements the
\* WaitGroup, and a WaitForShutdown called after Start returned nil is past
\* c.Client.WaitForShutdown() only with the transport down, and returns only
\* when both loops have exited, so with both output channels closed.
C14_WaitForShutdownWaits ==
    /\ \A q \in Queues : hpc[q] \in {"wgdone", "done"} => closes[q] = 1
    /\ wg = Cardinality({q \in Queues : hpc[q] \in {"select", "stop", "close", "wgdone"}})
    /\ waitAfterStart =>
         /\ waitPc \in {"wg", "ret"}
         /\ Disconnected
         /\ waitPc = "ret" => \A q \in Queues : hpc[q] = "done" /\ closes[q] = 1

\* C14 witness: WaitForShutdown, called on a started Session, has returned.
C14_Witness ==
    /\ waitPc = "ret" /\ waitAfterStart
    /\ started /\ quit /\ wg = 0

\* C15: an invocation of onSpentAndMissedTickets with a mapping in which
\* every ticket is spent offers nothing; with any other mapping it offers
\* exactly one missedTickets event, to the General queue, whose tickets are
\* exactly those the mapping gives as not spent.
Unspent(tickets) == {t \in Tickets : tickets[t] = FALSE}
C15_MissedTicketsOffer ==
    /\ [](\A w \in pending :
            w.ev.kind = "missedTickets" => w.q = "general" /\ w.ev.tickets # {})
    /\ [][\A tickets \in TicketMaps :
            onSpentAndMissedTicketsOf(tickets) =>
                IF \A t \in Tickets : tickets[t]
                  THEN pending' = pending
                  ELSE /\ Cardinality(pending') = Cardinality(pending) + 1
                       /\ pending' = pending \cup
                            {[ev |-> [kind |-> "missedTickets", id |-> nextId,
                                      tickets |-> Unspent(tickets)],
                              q |-> "general"]}]_vars

\* C15 witness: the invocation with {T1: not spent, T2: spent} waits to hand
\* over its one event, which holds T1 only.
C15_Witness ==
    /\ Cardinality(pending) = 1
    /\ \E w \in pending :
         w.ev.kind = "missedTickets" /\ w.ev.tickets = {"T1"} /\ w.q = "general"

\* C16: the Stop that runs the teardown sets the terminal signal and shuts
\* the transport down; on a Session not started it also closes both output
\* channels itself, on a started Session it closes neither.
C16_StopClosesOutputsIfNotStarted ==
    /\ [](closedByStop =>
            /\ quit /\ conn = "shutdown"
            /\ \A q \in Queues : closes[q] >= 1)
    /\ [][\A p \in Stoppers :
            (stopPc[p] = "teardown" /\ stopPc'[p] = "ret") =>
                /\ quit' /\ shutdowns' = shutdowns + 1 /\ conn' = "shutdown"
                /\ IF started
                     THEN closes' = closes /\ closedByStop' = closedByStop
                     ELSE /\ \A q \in Queues : closes'[q] = closes[q] + 1
                          /\ closedByStop']_vars

\* C16 witness: Start failed on the network check and Stop, called
\* afterwards, closed both output channels.
C16_Witness ==
    /\ startPc = "ret" /\ startErr = "net" /\ ~started
    /\ closedByStop /\ quit /\ conn = "shutdown"
    /\ \A q \in Queues : closes[q] = 1 /\ hpc[q] = "none"

\* C17: an invocation of onRelevantTxAccepted whose transaction does not
\* deserialize offers no event, calls no Stop and changes nothing of the
\* Session, the transport or the loops' buffers; the loops go on accepting
\* and delivering what later invocations offer.
C17_UndecodableTxIsDropped ==
    [][onRelevantTxAcceptedOf(FALSE) =>
          /\ pending' = pending
          /\ UNCHANGED << conn, started, stopVars, wg, hpc, loopVars, closes,
                          panicked, histVars >>]_vars

\* C17 witness: the first invocation offered nothing, and the event of the
\* second, a relevantTxAccepted, was accepted and delivered.
C17_Witness ==
    /\ nextId = 3 /\ pending = {} /\ ~quit
    /\ accepted["voting"] = << >>
    /\ Len(accepted["general"]) = 1
    /\ Len(delivered["general"]) = 1
    /\ delivered["general"][1].id = 2
    /\ delivered["general"][1].kind = "relevantTxAccepted"

\* C18: in each loop the output side is enabled exactly when the buffer is
\* not empty, and the value offered is then the head of the buffer; a
\* handoff delivers the head and removes exactly it; an accepted event goes
\* to the tail and changes the offered value only if the buffer was empty.
C18_NextIsHeadOfBuffer ==
    /\ [](\A q \in Queues :
            /\ dequeue[q] <=> notifications[q] # << >>
            /\ notifications[q] # << >> => next[q] = Head(notifications[q]))
    /\ [][\A q \in Queues :
            /\ delivered'[q] # delivered[q] =>
                 /\ delivered'[q] = Append(delivered[q], Head(notifications[q]))
                 /\ notifications'[q] = Tail(notifications[q])
            /\ accepted'[q] # accepted[q] =>
                 /\ notifications'[q] =
                      Append(notifications[q], accepted'[q][Len(accepted'[q])])
                 /\ notifications[q] # << >> => next'[q] = next[q]]_vars

\* C18 witness: the General loop delivered the first of two buffered events
\* and now offers the second.
C18_Witness ==
    /\ Len(delivered["general"]) = 1
    /\ Len(notifications["general"]) = 1
    /\ dequeue["general"]
    /\ next["general"].id = 2 /\ delivered["general"][1].id = 1

\* C19: a probe's goroutine that received a successful response calls no
\* Stop and sends the new timer on pingChanReset; the idle timer is assigned
\* by handler only; a timer reset is handed over only for a probe that
\* succeeded, never by a goroutine that called Stop for a failed probe.
C19_ResetOnlyAfterSuccess ==
    [][/\ \A j \in Probes :
            /\ (ppc[j] = "select" /\ session[j] = "ok" /\ ppc'[j] # "select") =>
                 ppc'[j] \in {"reset", "stopT"}
            /\ (ppc[j] = "reset" /\ ppc'[j] = "done") =>
                 /\ pingChan'
                 /\ stopPc[ProbeId(j)] = "idle"
       /\ pingChan' # pingChan => hpc'["general"] = "select"]_vars

\* C20: while a probe's call of c.Session() is outstanding, handler is at
\* its select (or has left it on quit): it can still accept every event a
\* callback offers and hand the head of its buffer to the consumer; and the
\* goroutine that made the call can always deposit the result, whether or
\* not anybody will receive it.
C20_ProbeNeverBlocksLoop ==
    \A j \in Probes :
        (session[j] = "calling" /\ ~panicked) =>
            /\ ENABLED SessionReturn(j)
            /\ hpc["general"] \in {"select", "stop", "close", "wgdone", "done"}
            /\ (hpc["general"] = "select" /\ ~quit) =>
                 \A w \in pending :
                     w.q = "general" => ENABLED HandlerEnqueue("general", w)
            /\ (hpc["general"] = "select" /\ notifications["general"] # << >>) =>
                 ENABLED HandlerDequeue("general")

\* C20 witness: with the probe's call outstanding, handler has accepted an
\* event (which re-armed its timer) and delivered it.
C20_Witness ==
    /\ \E j \in Probes : session[j] = "calling" /\ ppc[j] = "select"
    /\ hpc["general"] = "select" /\ ~quit
    /\ pingChan
    /\ Len(delivered["general"]) >= 1

\* C21: every acceptance into the General queue re-arms the idle timer; a
\* probe is started only by handler at its select, on a tick of the armed
\* timer, which the probe consumes; accepting or delivering on the Voting
\* queue leaves the timer as it is, and no step of the Voting loop starts a
\* probe or calls Stop.
C21_TimerBelongsToGeneralLoop ==
    /\ [](hpc["voting"] # "stop")
    /\ [][/\ accepted'["general"] # accepted["general"] => pingChan'
          /\ probes' # probes =>
               /\ pingChan /\ ~pingChan'
               /\ hpc["general"] = "select" /\ hpc'["general"] = "select"
               /\ probes' = probes + 1
          /\ (\/ accepted'["voting"] # accepted["voting"]
              \/ delivered'["voting"] # delivered["voting"]) =>
               /\ pingChan' = pingChan
               /\ probes' = probes /\ ppc' = ppc /\ session' = session
               /\ stopPc' = stopPc /\ quit' = quit
          /\ hpc'["voting"] # hpc["voting"] =>
               /\ probes' = probes /\ ppc' = ppc /\ session' = session
               /\ stopPc' = stopPc /\ quit' = quit]_vars

\* C21 witness: the timer fired and started a probe; since then the Voting
\* loop has accepted and delivered an event and the timer is still not
\* armed, the General queue having accepted nothing.
C21_Witness ==
    /\ probes = 1 /\ ~pingChan
    /\ hpc["general"] = "select" /\ ~quit
    /\ accepted["general"] = << >>
    /\ Len(delivered["voting"]) >= 1

\* the writes of c.started and of the terminal signal, Stop's test of both
\* and the buffers: c.started is set by Start with the mutex free before and
\* after (its Lock / Unlock pair); quit is closed, and the outputs closed by
\* Stop on started being false, only by the one goroutine that holds the
\* mutex in Stop; a buffer changes only in an accept or handoff of its loop.
AccessUnderMutex ==
    /\ [](/\ Cardinality({p \in Stoppers : stopPc[p] = "teardown"}) <= 1
          /\ \A p \in Stoppers : stopPc[p] = "teardown" <=> quitMtx = p)
    /\ [][/\ started' # started =>
               /\ startPc = "mark" /\ started'
               /\ quitMtx = NoOwner /\ quitMtx' = NoOwner
          /\ quit' # quit =>
               /\ quit' /\ quitMtx \in Stoppers /\ stopPc[quitMtx] = "teardown"
               /\ quitMtx' = NoOwner
          /\ closedByStop' # closedByStop =>
               /\ quitMtx \in Stoppers /\ ~started /\ ~started'
               /\ quit' # quit
          /\ \A q \in Queues :
               notifications'[q] # notifications[q] =>
                   /\ hpc[q] = "select" /\ hpc'[q] = "select"
                   /\ accepted'[q] # accepted[q] \/ delivered'[q] # delivered[q]
                   /\ \A r \in Queues \ {q} : notifications'[r] = notifications[r]]_vars

\* the goroutine of loop q holds the mutex: handlerVoting never locks it,
\* handler only inside its call of Stop
LoopHoldsMutex(q) == q = "general" /\ quitMtx = HandlerId

\* C22 as claimed: c.started and the terminal signal are written and read
\* only while holding the mutex, the loops' reads of the terminal signal
\* included.
C22_EveryAccessUnderMutex ==
    /\ AccessUnderMutex
    /\ [][\A q \in Queues :
            (hpc[q] = "select" /\ hpc'[q] \in {"stop", "close"}) =>
                LoopHoldsMutex(q)]_vars

\* C22 as amended: c.started is written and read, and the terminal signal
\* closed and tested by Stop, only while holding the mutex; each buffer is
\* touched only by its own loop; the loops take the terminal signal's case
\* of their select without the mutex, whoever holds it.
C22_WritesUnderMutex ==
    /\ AccessUnderMutex
    /\ [][\A q \in Queues :
            (hpc[q] = "select" /\ hpc'[q] \in {"stop", "close"}) =>
                quit /\ ~LoopHoldsMutex(q) /\ quitMtx' = quitMtx]_vars

\* C22 witness: an external caller of Stop holds the mutex, about to close
\* the terminal signal, while Start waits for the mutex to set c.started
\* and a callback waits in its select.
C22_Witness ==
    /\ quitMtx = FirstExternal /\ stopPc[FirstExternal] = "teardown"
    /\ startPc = "mark" /\ ~started /\ ~quit
    /\ pending # {}

\* C23: a closed output channel implies the terminal signal is set; handler
\* has returned from its own call of Stop before it closes its output, and
\* handlerVoting has left its loop only with the terminal signal set.
C23_ClosedOutputImpliesTerminal ==
    /\ \A q \in Queues : closes[q] >= 1 => quit
    /\ \A q \in Queues : Exited(q) => quit
    /\ hpc["general"] \in {"close", "wgdone", "done"} => stopPc[HandlerId] = "ret"

\* C23 witness: both loops have closed their own outputs after a Stop that
\* left the outputs to them.
C23_Witness ==
    /\ quit /\ ~closedByStop /\ stopPc[HandlerId] = "ret"
    /\ \A q \in Queues : closes[q] = 1 /\ hpc[q] \in {"wgdone", "done"}

\* C24: a failed Start does not terminate the Session.  The step on which
\* Start returns an error leaves the terminal signal, the output channels,
\* the started flag and the loops as they were; it leaves the transport alone
\* on a connect failure and otherwise only disconnects it.  After a failed
\* Start the terminal signal is set, and the outputs are closed, exactly when
\* an explicit Stop has run.
C24_FailedStartDoesNotTerminate ==
    /\ [](StartFailed =>
             /\ ~started
             /\ \A q \in Queues : hpc[q] = "none"
             /\ quit <=> \E p \in Externals : stopPc[p] = "ret"
             /\ \A q \in Queues : closes[q] = IF quit THEN 1 ELSE 0)
    /\ [][(startPc # "ret" /\ startPc' = "ret" /\ startErr' # "ok") =>
             /\ quit' = quit /\ quitCloses' = quitCloses
             /\ shutdowns' = shutdowns /\ closes' = closes
             /\ started' = started /\ hpc' = hpc /\ wg' = wg
             /\ conn' = IF startErr' = "io" \/ conn = "shutdown"
                          THEN conn ELSE "disconnected"]_vars

\* C24 witness: Start has returned the version error and disconnected; the
\* Session is not terminated and both outputs are open.
C24_Witness ==
    /\ StartFailed /\ startErr = "version" /\ conn = "disconnected"
    /\ ~quit /\ shutdowns = 0
    /\ \A q \in Queues : closes[q] = 0

\* C25: when the version query fails after the network check passed, the
\* server's version stays 0.0.0, which is incompatible with the required
\* 5.0.0: on that step Start returns the version error with the transport
\* disconnected, the Session not marked started and no loop launched.
C25_FailedVersionQueryIsIncompatible ==
    /\ [](~Compatible(ZeroAPI))
    /\ [](startPc = "mark" => seenAPI # ZeroAPI)
    /\ [][(startPc = "version" /\ startPc' # "version" /\ seenAPI' = ZeroAPI) =>
             /\ seenNet = ChainNet
             /\ startPc' = "ret" /\ startErr' = "version"
             /\ conn' \in {"disconnected", "shutdown"}
             /\ ~started' /\ wg' = 0
             /\ \A q \in Queues : hpc'[q] = "none"]_vars

\* C25 witness: Start has returned the version error after a failed version
\* query on the right network, and the transport is disconnected.
C25_Witness ==
    /\ startPc = "ret" /\ startErr = "version"
    /\ seenNet = ChainNet /\ seenAPI = ZeroAPI
    /\ conn = "disconnected" /\ ~started

====
